---- MODULE Spec2Model ----
(***************************************************************************)
(* Model of volatility3/framework/plugins/windows/memmap.py:               *)
(*   Memmap.coalesce   - the contiguous-run coalescer (a generator)        *)
(*   Memmap._generator - the per-process row generator                     *)
(* The row generator is a Python generator: it runs only when its consumer *)
(* pulls, and is suspended at its yield in between.  pc is its position.   *)
(***************************************************************************)
EXTENDS Integers, Sequences, FiniteSets, TLC

----------------------------------------------------------------------------
(* Bounds of the model. *)

\* number of process descriptors in the batch handed to _generator
NumProcs == 2

\* most descriptors one process layer's mapping() enumeration yields
MaxRegions == 2

\* most descriptors of a stream handed to coalesce on its own
MaxStream == 3

\* What a stream handed to coalesce may hold next: the distance of a region
\* from the end of the previous one, its <<size, mapped_size>>, where it is
\* backed (right after the previous region's backing, or at one of these
\* offsets) and by which layer.
StreamGaps == {0, 1}
StreamShapes == {<<1, 1>>, <<2, 1>>}
StreamBases == {0}
StreamLayers == {"L1", "L2"}

\* The same for what a process layer's mapping() may yield.
MapGaps == {0, 1}
MapShapes == {<<1, 1>>, <<2, 1>>}
MapBases == {1}
MapLayers == {"L1"}

----------------------------------------------------------------------------
(* Values of the program. *)

\* Python's None, the sentinel of line 43 (offsets and sizes are >= 0)
None == -1

\* a local name that has no value yet: reading it raises UnboundLocalError
Unbound == "Unbound"

Disabled == <<"Disabled">>
ErrorOutput == <<"Error outputting to file">>

\* file_handle.preferred_filename of the sink opened as f"pid.{pid}.dmp"
preferred_filename(pid) == <<"pid", pid, "dmp">>

\* proc.UniqueProcessId of the i-th process descriptor of the batch
UniqueProcessId(i) == i

NoVal == [offset |-> None, size |-> None, mapped_offset |-> None,
          mapped_size |-> None, map_layer |-> "None"]

\* the locals of a fresh call of coalesce: line 43 sets five names to None,
\* the fifth being stashed_mapped_layer; stashed_map_layer has no value yet
FreshStash == [offset |-> None, size |-> None, mapped_offset |-> None,
               mapped_size |-> None, mapped_layer |-> "None",
               map_layer |-> Unbound]

VARIABLES
    config,       \* self.config: [coalesce, dump]
    pc,           \* position of _generator
    procIdx,      \* index in procs of the process of the current iteration
    procState,    \* per process: Init, LayerResolved, Skipped, Closed, Failed
    sink,         \* per process: the output file: none, open, released
    fileData,     \* the bytes appended to the current process's sink
    file_offset,  \* the running counter of line 87
    mapval,       \* the run the emission loop is handling (line 89)
    rows,         \* the rows yielded for the current process
    ioLog,        \* per row of rows: what read and write did for it
    rowGroups,    \* the processes that have rows in the stream, in the
                  \* order of their first row; a process whose rows are
                  \* not consecutive in the stream is listed again
    stash,        \* the stashed_* locals of coalesce
    input,        \* the descriptors mapping() has yielded for this process
    mapDone,      \* mapping() of this process is exhausted
    output,       \* the runs handed to the emission loop for this process
    members,      \* per run of output: <<first, last>> index in input
    pendingFrom,  \* index in input of the first member of the pending run
    crossing,     \* prev: the last descriptor of the process resolved before
                  \* this one, until this one's first descriptor arrives;
                  \* contiguous: that first descriptor continued it in
                  \* virtual offset, backing offset and layer
    err           \* the exception that escaped the generator, if any

vars == <<config, pc, procIdx, procState, sink, fileData, file_offset, mapval,
          rows, ioLog, rowGroups, stash, input, mapDone, output, members,
          pendingFrom, crossing, err>>

Procs == 1..NumProcs

----------------------------------------------------------------------------
(* The address layer: mapping() and read(). *)

Last(s) == s[Len(s)]

VirtualEnd(inp) == IF inp = <<>> THEN 0 ELSE Last(inp).offset + Last(inp).size

MappedEnd(inp) ==
    IF inp = <<>> THEN 0 ELSE Last(inp).mapped_offset + Last(inp).mapped_size

\* the descriptors that may follow inp in a stream that is ascending and
\* non-overlapping in virtual offset, and backed anywhere
Descriptors(inp, gaps, shapes, bases, layers) ==
    { [offset |-> VirtualEnd(inp) + g, size |-> sh[1], mapped_offset |-> mo,
       mapped_size |-> sh[2], map_layer |-> l] :
        g \in gaps, sh \in shapes, mo \in {MappedEnd(inp)} \cup bases,
        l \in layers }

\* what mapping(0, maximum_address, ignore_errors = True) may yield after inp
MappingDescriptors(inp) == Descriptors(inp, MapGaps, MapShapes, MapBases, MapLayers)

\* what the mapping_generator argument of coalesce may yield after inp
StreamDescriptors(inp) ==
    Descriptors(inp, StreamGaps, StreamShapes, StreamBases, StreamLayers)

\* proc_layer.read(offset, size, pad = True): size bytes, each named here by
\* the virtual address it was read from
ReadBytes(offset, size) == [i \in 1..size |-> offset + i - 1]

----------------------------------------------------------------------------
(* Memmap.coalesce, lines 41-62. *)

\* faulty variants of the condition of lines 45-46, for testing the properties:
\* the backing comparison adds the virtual size; the virtual comparison is
\* missing; the layer comparison is missing
NotContiguousWrongSize(st, d) ==
    \/ st.offset = None
    \/ st.offset + st.size /= d.offset
    \/ st.mapped_offset + st.size /= d.mapped_offset
    \/ st.map_layer /= d.map_layer

NotContiguousNoVirtual(st, d) ==
    \/ st.offset = None
    \/ st.mapped_offset + st.mapped_size /= d.mapped_offset
    \/ st.map_layer /= d.map_layer

NotContiguousNoLayer(st, d) ==
    \/ st.offset = None
    \/ st.offset + st.size /= d.offset
    \/ st.mapped_offset + st.mapped_size /= d.mapped_offset

\* line 45-46, the condition of the if, evaluated left to right
NotContiguous(st, d) ==
    \/ st.offset = None
    \/ st.offset + st.size /= d.offset
    \/ st.mapped_offset + st.mapped_size /= d.mapped_offset
    \/ st.map_layer /= d.map_layer

\* the condition reaches its last operand, which reads stashed_map_layer
ReadsLayer(st, d) ==
    /\ st.offset /= None
    /\ st.offset + st.size = d.offset
    /\ st.mapped_offset + st.mapped_size = d.mapped_offset

\* lines 49 and 62: the tuple yielded
StashedRun(st) ==
    [offset |-> st.offset, size |-> st.size,
     mapped_offset |-> st.mapped_offset, mapped_size |-> st.mapped_size,
     map_layer |-> st.map_layer]

\* a faulty variant of lines 51-55: line 55 assigns the name that line 43
\* initialised, and stashed_map_layer never gets a value
RestashMappedLayer(st, d) ==
    [st EXCEPT !.offset = d.offset, !.mapped_offset = d.mapped_offset,
               !.size = d.size, !.mapped_size = d.mapped_size,
               !.mapped_layer = d.map_layer]

\* lines 51-55
Restash(st, d) ==
    [st EXCEPT !.offset = d.offset, !.mapped_offset = d.mapped_offset,
               !.size = d.size, !.mapped_size = d.mapped_size,
               !.map_layer = d.map_layer]

\* a faulty variant of lines 58-59: line 59 is missing
ExtendForgetsMapped(st, d) == [st EXCEPT !.size = @ + d.size]

\* lines 58-59
Extend(st, d) ==
    [st EXCEPT !.size = @ + d.size, !.mapped_size = @ + d.mapped_size]

\* lines 44-59, one iteration of the loop on descriptor d: the locals after
\* it, the runs it yields (none or one) and whether it raises.  Reading
\* stashed_map_layer while it has no value raises UnboundLocalError.
CoalesceIter(st, d) ==
    IF ReadsLayer(st, d) /\ st.map_layer = Unbound
    THEN [stash |-> st, yielded |-> <<>>, raised |-> TRUE]
    ELSE IF NotContiguous(st, d)
         THEN [stash |-> Restash(st, d),
               yielded |-> IF st.offset /= None THEN <<StashedRun(st)>>
                           ELSE <<>>,
               raised |-> FALSE]
         ELSE [stash |-> Extend(st, d), yielded |-> <<>>, raised |-> FALSE]

\* lines 60-62, after the loop: the runs yielded
CoalesceFlushed(st) == IF st.offset /= None THEN <<StashedRun(st)>> ELSE <<>>

----------------------------------------------------------------------------
(* Memmap._generator, lines 64-107. *)

\* a faulty variant of line 86: the file is not managed by the with block
ExitWithLeaks(s, p) == s

\* line 86, leaving the with block: the file is closed; the ExitStack that
\* stands in when dump is off has nothing to release
ExitWith(s, p) == IF s[p] = "open" THEN [s EXCEPT ![p] = "released"] ELSE s

\* a faulty variant of lines 81-85: the file is opened whatever dump is
EnterWithAlwaysOpens(s, p, dump) == [s EXCEPT ![p] = "open"]

\* lines 81-86, entering the with block: the file is opened only when dumping
EnterWith(s, p, dump) == IF dump THEN [s EXCEPT ![p] = "open"] ELSE s

\* a faulty variant of lines 102-104: the third field is the virtual size
RowVirtualSize(mv, fo, status) ==
    [offset |-> mv.offset, mapped_offset |-> mv.mapped_offset,
     mapped_size |-> mv.size, file_offset |-> fo, file_output |-> status]

\* line 102-104: the row yielded (the leading 0 is the tree depth)
Row(mv, fo, status) ==
    [offset |-> mv.offset, mapped_offset |-> mv.mapped_offset,
     mapped_size |-> mv.mapped_size, file_offset |-> fo, file_output |-> status]

\* the stream's groups after a row of process p is yielded
Grouped(g, p) == IF g /= <<>> /\ Last(g) = p THEN g ELSE Append(g, p)

\* a faulty variant of line 106: the counter advances by the virtual size
AdvanceFileOffsetBySize(fo, mv) == fo + mv.size

\* the crossing after descriptor d follows inp in the current process
Crossed(c, inp, d) ==
    IF inp /= <<>> THEN c
    ELSE [prev |-> NoVal,
          contiguous |-> /\ c.prev /= NoVal
                         /\ c.prev.offset + c.prev.size = d.offset
                         /\ c.prev.mapped_offset + c.prev.mapped_size
                                = d.mapped_offset
                         /\ c.prev.map_layer = d.map_layer]

\* line 106
AdvanceFileOffset(fo, mv) == fo + mv.mapped_size

\* line 95: file_data.write(data) appends
Write(data, bytes) == data \o bytes

\* a faulty variant of lines 93-100: a failed read is written as zero bytes
DumpRunPadsOnError(fd, mv, pid, raises) ==
    IF raises
    THEN [fileData |-> Write(fd, [i \in 1..mv.size |-> 0]),
          file_output |-> ErrorOutput,
          log |-> [read |-> "raised", at |-> None, data |-> <<>>]]
    ELSE [fileData |-> Write(fd, ReadBytes(mv.offset, mv.size)),
          file_output |-> preferred_filename(pid),
          log |-> [read |-> "ok", at |-> Len(fd),
                   data |-> ReadBytes(mv.offset, mv.size)]]

\* lines 93-100, the try of the emission loop for run mv of process pid, the
\* file holding fd: read either returns the bytes, which are appended and the
\* status is the sink's name, or raises InvalidAddressException, and nothing
\* is written and the status is the error marker
DumpRun(fd, mv, pid, raises) ==
    IF raises
    THEN [fileData |-> fd, file_output |-> ErrorOutput,
          log |-> [read |-> "raised", at |-> None, data |-> <<>>]]
    ELSE [fileData |-> Write(fd, ReadBytes(mv.offset, mv.size)),
          file_output |-> preferred_filename(pid),
          log |-> [read |-> "ok", at |-> Len(fd),
                   data |-> ReadBytes(mv.offset, mv.size)]]

Init ==
    /\ config \in [coalesce : BOOLEAN, dump : BOOLEAN]
    /\ pc = "procs"
    /\ procIdx = 1
    /\ procState = [p \in Procs |-> "Init"]
    /\ sink = [p \in Procs |-> "none"]
    /\ fileData = <<>>
    /\ file_offset = 0
    /\ mapval = NoVal
    /\ rows = <<>>
    /\ ioLog = <<>>
    /\ rowGroups = <<>>
    /\ stash = FreshStash
    /\ input = <<>>
    /\ mapDone = FALSE
    /\ output = <<>>
    /\ members = <<>>
    /\ pendingFrom = 0
    /\ crossing = [prev |-> NoVal, contiguous |-> FALSE]
    /\ err = "none"

\* a faulty variant of lines 66-86: the file is opened before the layer is
\* resolved, and the skip leaves it open
LayerInvalidAfterOpen ==
    /\ pc = "procs"
    /\ procIdx <= NumProcs
    /\ sink' = EnterWith(sink, procIdx, config.dump)
    /\ procState' = [procState EXCEPT ![procIdx] = "Skipped"]
    /\ procIdx' = procIdx + 1
    /\ UNCHANGED <<crossing, config, pc, fileData, file_offset, mapval, rows,
                   ioLog, rowGroups, stash, input, mapDone, output, members,
                   pendingFrom, err>>

\* a faulty variant of lines 68-75: break in place of continue
LayerInvalidBreaks ==
    /\ pc = "procs"
    /\ procIdx <= NumProcs
    /\ procState' = [procState EXCEPT ![procIdx] = "Skipped"]
    /\ procIdx' = NumProcs + 1
    /\ UNCHANGED <<crossing, config, pc, sink, fileData, file_offset, mapval, rows, ioLog,
                   rowGroups, stash, input, mapDone, output, members,
                   pendingFrom, err>>

\* a faulty variant of lines 68-75: the except clause is missing, and the
\* InvalidAddressException ends the generator
LayerInvalidEscapes ==
    /\ pc = "procs"
    /\ procIdx <= NumProcs
    /\ procState' = [procState EXCEPT ![procIdx] = "Aborted"]
    /\ err' = "InvalidAddressException"
    /\ pc' = "raised"
    /\ UNCHANGED <<crossing, config, procIdx, sink, fileData, file_offset,
                   mapval, rows, ioLog, rowGroups, stash, input, mapDone,
                   output, members, pendingFrom>>

\* lines 68-75: add_process_layer raises InvalidAddressException; continue
LayerInvalid ==
    /\ pc = "procs"
    /\ procIdx <= NumProcs
    /\ procState' = [procState EXCEPT ![procIdx] = "Skipped"]
    /\ procIdx' = procIdx + 1
    /\ UNCHANGED <<crossing, config, pc, sink, fileData, file_offset, mapval, rows, ioLog,
                   rowGroups, stash, input, mapDone, output, members,
                   pendingFrom, err>>

\* a faulty variant of lines 42-43, 88: the locals of coalesce outlive the call,
\* and the pending run of the previous process is still there
LayerResolvedKeepsStash ==
    /\ pc = "procs"
    /\ procIdx <= NumProcs
    /\ procState' = [procState EXCEPT ![procIdx] = "LayerResolved"]
    /\ sink' = EnterWith(sink, procIdx, config.dump)
    /\ file_offset' = 0
    /\ fileData' = <<>>
    /\ stash' = stash
    /\ input' = <<>>
    /\ mapDone' = FALSE
    /\ output' = <<>>
    /\ members' = <<>>
    /\ pendingFrom' = 0
    /\ rows' = <<>>
    /\ ioLog' = <<>>
    /\ mapval' = NoVal
    /\ crossing' = [prev |-> IF input = <<>> THEN NoVal ELSE Last(input),
                    contiguous |-> FALSE]
    /\ pc' = "mapping"
    /\ UNCHANGED <<config, procIdx, rowGroups, err>>

\* lines 66-88: the layer resolves, the sink is opened when dumping, the with
\* block is entered, file_offset is 0 and coalesce (or the identity) is called
\* on a fresh mapping()
LayerResolved ==
    /\ pc = "procs"
    /\ procIdx <= NumProcs
    /\ procState' = [procState EXCEPT ![procIdx] = "LayerResolved"]
    /\ sink' = EnterWith(sink, procIdx, config.dump)
    /\ file_offset' = 0
    /\ fileData' = <<>>
    /\ stash' = FreshStash
    /\ input' = <<>>
    /\ mapDone' = FALSE
    /\ output' = <<>>
    /\ members' = <<>>
    /\ pendingFrom' = 0
    /\ rows' = <<>>
    /\ ioLog' = <<>>
    /\ mapval' = NoVal
    /\ crossing' = [prev |-> IF input = <<>> THEN NoVal ELSE Last(input),
                    contiguous |-> FALSE]
    /\ pc' = "mapping"
    /\ UNCHANGED <<config, procIdx, rowGroups, err>>

\* a faulty variant of lines 81-86: the failure of self.open is caught and
\* the loop goes on to the next process
SinkOpenFailsMasked ==
    /\ pc = "procs"
    /\ procIdx <= NumProcs
    /\ config.dump
    /\ procState' = [procState EXCEPT ![procIdx] = "Failed"]
    /\ procIdx' = procIdx + 1
    /\ UNCHANGED <<crossing, config, pc, sink, fileData, file_offset, mapval,
                   rows, ioLog, rowGroups, stash, input, mapDone, output,
                   members, pendingFrom, err>>

\* line 82: self.open raises; nothing catches it, the generator ends with it
SinkOpenFails ==
    /\ pc = "procs"
    /\ procIdx <= NumProcs
    /\ config.dump
    /\ procState' = [procState EXCEPT ![procIdx] = "Failed"]
    /\ err' = "OSError"
    /\ pc' = "raised"
    /\ UNCHANGED <<crossing, config, procIdx, sink, fileData, file_offset, mapval, rows,
                   ioLog, rowGroups, stash, input, mapDone, output, members,
                   pendingFrom>>

\* line 65: procs is exhausted, the generator returns
ProcsExhausted ==
    /\ pc = "procs"
    /\ procIdx > NumProcs
    /\ pc' = "done"
    /\ UNCHANGED <<crossing, config, procIdx, procState, sink, fileData, file_offset,
                   mapval, rows, ioLog, rowGroups, stash, input, mapDone, output,
                   members, pendingFrom, err>>

\* a faulty variant of lines 77-80: the config is not looked at and the
\* descriptors always go through the loop of coalesce
PassThroughCoalesces ==
    /\ pc = "mapping"
    /\ ~config.coalesce
    /\ ~mapDone
    /\ Len(input) < MaxRegions
    /\ \E d \in MappingDescriptors(input) :
        LET r == CoalesceIter(stash, d) IN
        /\ input' = Append(input, d)
        /\ stash' = r.stash
        /\ output' = output \o r.yielded
        /\ members' = IF r.yielded /= <<>>
                      THEN Append(members, <<pendingFrom, Len(input)>>)
                      ELSE members
        /\ mapval' = IF r.yielded /= <<>> THEN r.yielded[1] ELSE mapval
        /\ pc' = IF r.yielded /= <<>> THEN "body" ELSE pc
        /\ pendingFrom' = IF NotContiguous(stash, d)
                          THEN Len(input) + 1 ELSE pendingFrom
        /\ crossing' = Crossed(crossing, input, d)
    /\ UNCHANGED <<config, procIdx, procState, sink, fileData, file_offset,
                   rows, ioLog, rowGroups, mapDone, err>>

\* line 88 with coalesce = lambda x: x: the next descriptor is the next run
PassThrough ==
    /\ pc = "mapping"
    /\ ~config.coalesce
    /\ ~mapDone
    /\ Len(input) < MaxRegions
    /\ \E d \in MappingDescriptors(input) :
        /\ input' = Append(input, d)
        /\ output' = Append(output, d)
        /\ members' = Append(members, <<Len(input) + 1, Len(input) + 1>>)
        /\ mapval' = d
        /\ crossing' = Crossed(crossing, input, d)
    /\ pc' = "body"
    /\ UNCHANGED <<config, procIdx, procState, sink, fileData, file_offset,
                   rows, ioLog, rowGroups, stash, mapDone, pendingFrom, err>>

\* line 88 with coalesce = self.coalesce: one iteration of the loop of lines
\* 44-59 on the next descriptor.  The descriptor breaks the pending run (which
\* is yielded, if there is one, and replaced) or extends it.  An
\* UnboundLocalError is caught by nothing: it leaves the with block and ends
\* the generator.
CoalesceNext ==
    /\ pc = "mapping"
    /\ config.coalesce
    /\ ~mapDone
    /\ Len(input) < MaxRegions
    /\ \E d \in MappingDescriptors(input) :
        LET r == CoalesceIter(stash, d) IN
        /\ input' = Append(input, d)
        /\ stash' = r.stash
        /\ crossing' = Crossed(crossing, input, d)
        /\ IF r.raised
           THEN /\ err' = "UnboundLocalError"
                /\ pc' = "raised"
                /\ sink' = ExitWith(sink, procIdx)
                /\ procState' = [procState EXCEPT ![procIdx] = "Aborted"]
                /\ UNCHANGED <<output, members, mapval, pendingFrom>>
           ELSE /\ UNCHANGED <<err, sink, procState>>
                /\ pendingFrom' = IF NotContiguous(stash, d)
                                  THEN Len(input) + 1 ELSE pendingFrom
                /\ IF r.yielded /= <<>>
                   THEN /\ output' = output \o r.yielded
                        /\ members' = Append(members,
                                             <<pendingFrom, Len(input)>>)
                        /\ mapval' = r.yielded[1]
                        /\ pc' = "body"
                   ELSE UNCHANGED <<output, members, mapval, pc>>
    /\ UNCHANGED <<config, procIdx, fileData, file_offset, rows, ioLog,
                   rowGroups, mapDone>>

\* lines 60-62: mapping() is exhausted and a run is pending: it is yielded
CoalesceFlush ==
    /\ pc = "mapping"
    /\ config.coalesce
    /\ ~mapDone
    /\ CoalesceFlushed(stash) /= <<>>
    /\ mapDone' = TRUE
    /\ output' = output \o CoalesceFlushed(stash)
    /\ members' = Append(members, <<pendingFrom, Len(input)>>)
    /\ mapval' = CoalesceFlushed(stash)[1]
    /\ pc' = "body"
    /\ UNCHANGED <<crossing, config, procIdx, procState, sink, fileData, file_offset,
                   rows, ioLog, rowGroups, stash, input, pendingFrom, err>>

\* line 88: no further run (mapping() is exhausted with nothing pending, or
\* coalesce returns after its flush): the loop ends, the with block is left
\* and the loop of line 65 goes on to the next process
RunsExhausted ==
    /\ pc = "mapping"
    /\ \/ mapDone
       \/ ~config.coalesce
       \/ CoalesceFlushed(stash) = <<>>
    /\ mapDone' = TRUE
    /\ sink' = ExitWith(sink, procIdx)
    /\ procState' = [procState EXCEPT ![procIdx] = "Closed"]
    /\ procIdx' = procIdx + 1
    /\ pc' = "procs"
    /\ UNCHANGED <<crossing, config, fileData, file_offset, mapval, rows, ioLog,
                   rowGroups, stash, input, output, members, pendingFrom, err>>

\* lines 89-104 with dump off: the row is yielded with status "Disabled"
EmitDisabled ==
    /\ pc = "body"
    /\ ~config.dump
    /\ rows' = Append(rows, Row(mapval, file_offset, Disabled))
    /\ ioLog' = Append(ioLog, [read |-> "none", at |-> None, data |-> <<>>])
    /\ rowGroups' = Grouped(rowGroups, procIdx)
    /\ pc' = "yield"
    /\ UNCHANGED <<crossing, config, procIdx, procState, sink, fileData, file_offset,
                   mapval, stash, input, mapDone, output, members, pendingFrom,
                   err>>

\* lines 92-96, 102: read succeeds, the bytes are appended, the row is yielded
\* with the sink's name
EmitDumped ==
    /\ pc = "body"
    /\ config.dump
    /\ LET r == DumpRun(fileData, mapval, UniqueProcessId(procIdx), FALSE) IN
        /\ fileData' = r.fileData
        /\ ioLog' = Append(ioLog, r.log)
        /\ rows' = Append(rows, Row(mapval, file_offset, r.file_output))
    /\ rowGroups' = Grouped(rowGroups, procIdx)
    /\ pc' = "yield"
    /\ UNCHANGED <<crossing, config, procIdx, procState, sink, file_offset, mapval,
                   stash, input, mapDone, output, members, pendingFrom, err>>

\* lines 94, 97-102: read raises InvalidAddressException; nothing is written
\* and the row is yielded with the error status
EmitReadError ==
    /\ pc = "body"
    /\ config.dump
    /\ LET r == DumpRun(fileData, mapval, UniqueProcessId(procIdx), TRUE) IN
        /\ fileData' = r.fileData
        /\ ioLog' = Append(ioLog, r.log)
        /\ rows' = Append(rows, Row(mapval, file_offset, r.file_output))
    /\ rowGroups' = Grouped(rowGroups, procIdx)
    /\ pc' = "yield"
    /\ UNCHANGED <<crossing, config, procIdx, procState, sink, file_offset, mapval,
                   stash, input, mapDone, output, members, pendingFrom, err>>

\* line 95: write raises (an OSError, say); only InvalidAddressException is
\* caught, so it leaves the with block and ends the generator
WriteFails ==
    /\ pc = "body"
    /\ config.dump
    /\ err' = "OSError"
    /\ sink' = ExitWith(sink, procIdx)
    /\ procState' = [procState EXCEPT ![procIdx] = "Aborted"]
    /\ pc' = "raised"
    /\ UNCHANGED <<crossing, config, procIdx, fileData, file_offset, mapval, rows, ioLog,
                   rowGroups, stash, input, mapDone, output, members,
                   pendingFrom>>

\* lines 106-107: the consumer pulls the next row, the generator resumes
\* after its yield
Resume ==
    /\ pc = "yield"
    /\ file_offset' = AdvanceFileOffset(file_offset, mapval)
    /\ mapval' = [mapval EXCEPT !.offset = @ + mapval.mapped_size]
    /\ pc' = "mapping"
    /\ UNCHANGED <<crossing, config, procIdx, procState, sink, fileData, rows, ioLog,
                   rowGroups, stash, input, mapDone, output, members,
                   pendingFrom, err>>

\* the consumer stops pulling and closes (or drops) the generator:
\* GeneratorExit is raised at the yield of line 102 and leaves the with block
Close ==
    /\ pc = "yield"
    /\ sink' = ExitWith(sink, procIdx)
    /\ procState' = [procState EXCEPT ![procIdx] = "Abandoned"]
    /\ pc' = "closed"
    /\ UNCHANGED <<crossing, config, procIdx, fileData, file_offset, mapval, rows, ioLog,
                   rowGroups, stash, input, mapDone, output, members,
                   pendingFrom, err>>

Next ==
    \/ LayerInvalid
    \/ LayerResolved
    \/ SinkOpenFails
    \/ ProcsExhausted
    \/ PassThrough
    \/ CoalesceNext
    \/ CoalesceFlush
    \/ RunsExhausted
    \/ EmitDisabled
    \/ EmitDumped
    \/ EmitReadError
    \/ WriteFails
    \/ Resume
    \/ Close

Spec == Init /\ [][Next]_vars

\* The generator with a consumer that pulls every row to the end, a sink that
\* opens and a write that does not fail: the only failures left are those of
\* layer resolution and of read.  Python runs the generator's code whenever
\* the consumer pulls, and every call it makes returns or raises, so a step
\* that can be taken is taken.
NextPulling ==
    \/ LayerInvalid
    \/ LayerResolved
    \/ ProcsExhausted
    \/ PassThrough
    \/ CoalesceNext
    \/ CoalesceFlush
    \/ RunsExhausted
    \/ EmitDisabled
    \/ EmitDumped
    \/ EmitReadError
    \/ Resume

SpecPulling == Init /\ [][NextPulling]_vars /\ WF_vars(NextPulling)

----------------------------------------------------------------------------
(* Memmap.coalesce on its own: the classmethod applied to a stream of      *)
(* descriptors, and the identity that line 80 puts in its place when       *)
(* coalescing is off.  The consumer pulls until the result is exhausted.   *)

InitCoalesce ==
    /\ config \in [coalesce : BOOLEAN, dump : {FALSE}]
    /\ pc = "coalesce"
    /\ procIdx = 1
    /\ procState = [p \in Procs |-> "Init"]
    /\ sink = [p \in Procs |-> "none"]
    /\ fileData = <<>>
    /\ file_offset = 0
    /\ mapval = NoVal
    /\ rows = <<>>
    /\ ioLog = <<>>
    /\ rowGroups = <<>>
    /\ stash = FreshStash
    /\ input = <<>>
    /\ mapDone = FALSE
    /\ output = <<>>
    /\ members = <<>>
    /\ pendingFrom = 0
    /\ crossing = [prev |-> NoVal, contiguous |-> FALSE]
    /\ err = "none"

\* lines 44-59: one iteration of the loop on the stream's next descriptor
StreamNext ==
    /\ pc = "coalesce"
    /\ config.coalesce
    /\ Len(input) < MaxStream
    /\ \E d \in StreamDescriptors(input) :
        LET r == CoalesceIter(stash, d) IN
        /\ input' = Append(input, d)
        /\ stash' = r.stash
        /\ output' = output \o r.yielded
        /\ members' = IF r.yielded /= <<>>
                      THEN Append(members, <<pendingFrom, Len(input)>>)
                      ELSE members
        /\ pendingFrom' = IF ~r.raised /\ NotContiguous(stash, d)
                          THEN Len(input) + 1 ELSE pendingFrom
        /\ pc' = IF r.raised THEN "raised" ELSE pc
        /\ err' = IF r.raised THEN "UnboundLocalError" ELSE err
    /\ UNCHANGED <<crossing, config, procIdx, procState, sink, fileData, file_offset,
                   mapval, rows, ioLog, rowGroups, mapDone>>

\* lines 60-62: the stream is exhausted; the pending run, if any, is yielded
\* and coalesce returns
StreamEnd ==
    /\ pc = "coalesce"
    /\ config.coalesce
    /\ mapDone' = TRUE
    /\ output' = output \o CoalesceFlushed(stash)
    /\ members' = IF CoalesceFlushed(stash) /= <<>>
                  THEN Append(members, <<pendingFrom, Len(input)>>)
                  ELSE members
    /\ pc' = "coalesced"
    /\ UNCHANGED <<crossing, config, procIdx, procState, sink, fileData, file_offset,
                   mapval, rows, ioLog, rowGroups, stash, input, pendingFrom,
                   err>>

\* line 80, lambda x: x: the stream's next descriptor is the next run
IdentityNext ==
    /\ pc = "coalesce"
    /\ ~config.coalesce
    /\ Len(input) < MaxStream
    /\ \E d \in StreamDescriptors(input) :
        /\ input' = Append(input, d)
        /\ output' = Append(output, d)
        /\ members' = Append(members, <<Len(input) + 1, Len(input) + 1>>)
    /\ UNCHANGED <<crossing, config, pc, procIdx, procState, sink, fileData, file_offset,
                   mapval, rows, ioLog, rowGroups, stash, mapDone, pendingFrom,
                   err>>

\* line 80: the stream is exhausted
IdentityEnd ==
    /\ pc = "coalesce"
    /\ ~config.coalesce
    /\ mapDone' = TRUE
    /\ pc' = "coalesced"
    /\ UNCHANGED <<crossing, config, procIdx, procState, sink, fileData, file_offset,
                   mapval, rows, ioLog, rowGroups, stash, input, output,
                   members, pendingFrom, err>>

NextCoalesce ==
    \/ StreamNext
    \/ StreamEnd
    \/ IdentityNext
    \/ IdentityEnd

SpecCoalesce == InitCoalesce /\ [][NextCoalesce]_vars

----------------------------------------------------------------------------
(* Properties of Memmap.coalesce. *)

RECURSIVE SumSize(_)
SumSize(seq) ==
    IF seq = <<>> THEN 0 ELSE seq[1].size + SumSize(Tail(seq))

RECURSIVE SumMappedSize(_)
SumMappedSize(seq) ==
    IF seq = <<>> THEN 0 ELSE seq[1].mapped_size + SumMappedSize(Tail(seq))

VirtualRange(r) == r.offset .. (r.offset + r.size - 1)

MappedRange(r) ==
    { <<r.map_layer, o>> : o \in r.mapped_offset .. (r.mapped_offset + r.mapped_size - 1) }

VirtualCover(seq) == UNION { VirtualRange(seq[i]) : i \in 1..Len(seq) }

MappedCover(seq) == UNION { MappedRange(seq[i]) : i \in 1..Len(seq) }

\* the runs of the input consumed so far: those yielded, and the pending one
\* that the end of the input would flush
Runs ==
    IF config.coalesce /\ ~mapDone THEN output \o CoalesceFlushed(stash)
    ELSE output

\* the members of each of Runs, as <<first, last>> index in input
RunMembers ==
    IF config.coalesce /\ ~mapDone /\ CoalesceFlushed(stash) /= <<>>
    THEN Append(members, <<pendingFrom, Len(input)>>)
    ELSE members

\* the three contiguity conditions between a run (or descriptor) and the
\* descriptor that follows it
VirtuallyContiguous(r, d) == r.offset + r.size = d.offset
BackingContiguous(r, d) == r.mapped_offset + r.mapped_size = d.mapped_offset
SameLayer(r, d) == r.map_layer = d.map_layer

\* a step that consumes one descriptor of the input while a run is pending
ConsumesWithPending ==
    /\ config.coalesce
    /\ Len(input') = Len(input) + 1
    /\ stash.offset /= None

\* C1: coverage preservation.  For every input consumed, coalesced or passed
\* through, the runs cover exactly the virtual offsets and the backing offsets
\* of the input, the sizes sum up to the input's, the runs' members are the
\* input's descriptors, each once and in order, each run spans exactly its
\* members, and no two runs overlap.
C1_CoveragePreserved ==
    LET runs == Runs
        mem == RunMembers
        n == Len(runs)
    IN
    /\ VirtualCover(runs) = VirtualCover(input)
    /\ MappedCover(runs) = MappedCover(input)
    /\ SumSize(runs) = SumSize(input)
    /\ SumMappedSize(runs) = SumMappedSize(input)
    /\ Len(mem) = n
    /\ \A k \in 1..n :
        LET a == mem[k][1]
            b == mem[k][2]
            ms == SubSeq(input, a, b)
        IN  /\ a <= b
            /\ a = IF k = 1 THEN 1 ELSE mem[k - 1][2] + 1
            /\ k = n => b = Len(input)
            /\ VirtualRange(runs[k]) = VirtualCover(ms)
            /\ MappedRange(runs[k]) = MappedCover(ms)
            /\ runs[k].size = SumSize(ms)
            /\ runs[k].mapped_size = SumMappedSize(ms)
    /\ (runs = <<>>) = (input = <<>>)
    /\ \A j, k \in 1..n :
        j < k => VirtualRange(runs[j]) \cap VirtualRange(runs[k]) = {}

\* C1's case: a stream of three descriptors was coalesced into two runs
C1_Witness ==
    /\ pc = "coalesced"
    /\ config.coalesce
    /\ Len(input) = 3
    /\ Len(output) = 2

\* C2: merge correctness.  A descriptor that is virtually contiguous and
\* backing-contiguous with the pending run and has its layer is merged: no
\* run is yielded at that step, the pending run's sizes grow by the
\* descriptor's, its offsets and layer stay.  So no two consecutive runs
\* satisfy all three contiguity conditions.
C2_MergeStep ==
    LET d == Last(input') IN
    ( /\ ConsumesWithPending
      /\ VirtuallyContiguous(stash, d)
      /\ BackingContiguous(stash, d)
      /\ SameLayer(stash, d) )
    => /\ output' = output
       /\ pc' = pc
       /\ stash'.size = stash.size + d.size
       /\ stash'.mapped_size = stash.mapped_size + d.mapped_size
       /\ stash'.offset = stash.offset
       /\ stash'.mapped_offset = stash.mapped_offset
       /\ stash'.map_layer = stash.map_layer

C2_RunsMaximal ==
    config.coalesce =>
        \A k \in 1..(Len(Runs) - 1) :
            ~ ( /\ VirtuallyContiguous(Runs[k], Runs[k + 1])
                /\ BackingContiguous(Runs[k], Runs[k + 1])
                /\ SameLayer(Runs[k], Runs[k + 1]) )

C2_MergeCorrect == [][C2_MergeStep]_vars /\ []C2_RunsMaximal

\* C2's case: three descriptors were merged into the one run yielded
C2_Witness ==
    /\ pc = "coalesced"
    /\ config.coalesce
    /\ Len(input) = 3
    /\ output = <<[offset |-> input[1].offset, size |-> SumSize(input),
                   mapped_offset |-> input[1].mapped_offset,
                   mapped_size |-> SumMappedSize(input),
                   map_layer |-> input[1].map_layer]>>

\* C3: merge break on gap.  A descriptor that is not virtually contiguous, or
\* not backing-contiguous, with the pending run makes that run be yielded as it
\* stands and becomes the new pending run; so every run's members are
\* adjacent-contiguous in virtual and in backing offset.
C3_BreakStep ==
    LET d == Last(input') IN
    ( /\ ConsumesWithPending
      /\ \/ ~VirtuallyContiguous(stash, d)
         \/ ~BackingContiguous(stash, d) )
    => /\ output' = Append(output, StashedRun(stash))
       /\ StashedRun(stash') = d

C3_RunsContiguous ==
    config.coalesce =>
        /\ Len(RunMembers) = Len(Runs)
        /\ \A k \in 1..Len(Runs) :
            LET a == RunMembers[k][1]
                b == RunMembers[k][2]
            IN  /\ Runs[k].offset = input[a].offset
                /\ Runs[k].mapped_offset = input[a].mapped_offset
                /\ VirtuallyContiguous(Runs[k], [offset |->
                        input[b].offset + input[b].size])
                /\ \A i \in a..(b - 1) :
                    /\ VirtuallyContiguous(input[i], input[i + 1])
                    /\ BackingContiguous(input[i], input[i + 1])

C3_BreakOnGap == [][C3_BreakStep]_vars /\ []C3_RunsContiguous

\* C3's case: two descriptors of one layer, backing-contiguous, with a virtual
\* gap between them, came out as two runs equal to them
C3_Witness ==
    /\ pc = "coalesced"
    /\ config.coalesce
    /\ Len(input) = 2
    /\ ~VirtuallyContiguous(input[1], input[2])
    /\ BackingContiguous(input[1], input[2])
    /\ SameLayer(input[1], input[2])
    /\ output = input

\* C4: merge break on layer change.  Every run has the layer of each of its
\* members, so two consecutive descriptors of different layers, the first two
\* included, are in different runs even when contiguous otherwise.
C4_BreakOnLayerChange ==
    config.coalesce =>
        /\ Len(RunMembers) = Len(Runs)
        /\ \A k \in 1..Len(Runs) :
            \A i \in RunMembers[k][1]..RunMembers[k][2] :
                /\ i \in 1..Len(input)
                /\ input[i].map_layer = Runs[k].map_layer
        /\ \A i \in 1..(Len(input) - 1) :
            ~SameLayer(input[i], input[i + 1]) =>
                \E k \in 1..(Len(Runs) - 1) :
                    /\ RunMembers[k][2] = i
                    /\ RunMembers[k + 1][1] = i + 1

\* C4's case: the first two descriptors are contiguous in virtual and backing
\* offset, differ in layer, and came out as two runs
C4_Witness ==
    /\ pc = "coalesced"
    /\ config.coalesce
    /\ Len(input) = 2
    /\ VirtuallyContiguous(input[1], input[2])
    /\ BackingContiguous(input[1], input[2])
    /\ ~SameLayer(input[1], input[2])
    /\ output = input

----------------------------------------------------------------------------
(* Properties of Memmap._generator. *)

SinkName(p) == preferred_filename(UniqueProcessId(p))

\* the process whose rows, input and file the per-process variables hold
Resolved(p) ==
    procState[p] \in {"LayerResolved", "Closed", "Aborted", "Abandoned"}

RECURSIVE LoggedData(_)
LoggedData(log) ==
    IF log = <<>> THEN <<>> ELSE log[1].data \o LoggedData(Tail(log))

\* C5: file-offset monotonicity.  The first row of a process has file_offset
\* 0 and every later row's file_offset is the previous row's plus the previous
\* row's mapped size, so it never decreases; dump on or off, read failed or
\* not.
C5_FileOffsetChain ==
    /\ Len(rows) >= 1 => rows[1].file_offset = 0
    /\ \A k \in 1..(Len(rows) - 1) :
        /\ rows[k + 1].file_offset = rows[k].file_offset + rows[k].mapped_size
        /\ rows[k + 1].file_offset >= rows[k].file_offset
    /\ pc \in {"body", "yield"} =>
        file_offset = IF rows = <<>> THEN 0
                      ELSE IF pc = "yield" THEN Last(rows).file_offset
                      ELSE Last(rows).file_offset + Last(rows).mapped_size

\* C5's case: dumping, the first row's read failed and a second row followed
C5_Witness ==
    /\ config.dump
    /\ Len(rows) = 2
    /\ rows[1].file_output = ErrorOutput
    /\ rows[2].file_offset = rows[1].mapped_size
    /\ rows[2].file_offset > 0

\* C6: dump-file position validity, as claimed.  The bytes read for a row
\* whose status is the sink's name lie in the process's file from the row's
\* file_offset on.  (Stated for streams whose regions are backed by as many
\* bytes as they span, where file_offset differs from the file's length only
\* after a failed read.)
C6_BytesAtFileOffset ==
    ( /\ config.dump
      /\ \A i \in 1..Len(input) : input[i].size = input[i].mapped_size )
    => \A k \in 1..Len(rows) :
        rows[k].file_output = SinkName(Last(rowGroups)) =>
            /\ rows[k].file_offset + Len(ioLog[k].data) <= Len(fileData)
            /\ SubSeq(fileData, rows[k].file_offset + 1,
                      rows[k].file_offset + Len(ioLog[k].data))
                 = ioLog[k].data

\* C7: sink release on every exit path.  A sink is open only for the process
\* whose runs are being emitted; once that process's runs are exhausted, an
\* error has escaped or the consumer has closed the stream, no sink is open.
C7_SinkReleased ==
    /\ \A p \in Procs :
        sink[p] = "open" =>
            /\ p = procIdx
            /\ pc \in {"mapping", "body", "yield"}
            /\ config.dump
    /\ pc \in {"done", "raised", "closed"} =>
        \A p \in Procs : sink[p] /= "open"
    /\ \A p \in Procs :
        (config.dump /\ procState[p] \in {"Closed", "Aborted", "Abandoned"})
            => sink[p] = "released"

\* C7's case: the consumer closed the stream while a sink was open
C7_Witness ==
    /\ pc = "closed"
    /\ config.dump
    /\ procState[procIdx] = "Abandoned"
    /\ sink[procIdx] = "released"
    /\ rows /= <<>>

\* C8: fault isolation.  A process whose layer resolution fails has no row in
\* the stream and only ends its own iteration: the loop goes on to the next
\* process.  The rows of the others are grouped per process, in batch order.
C8_Groups ==
    /\ \A p \in Procs : procState[p] = "Skipped" =>
        \A i \in 1..Len(rowGroups) : rowGroups[i] /= p
    /\ \A i \in 1..Len(rowGroups) :
        /\ rowGroups[i] \in Procs
        /\ Resolved(rowGroups[i])
        /\ i > 1 => rowGroups[i - 1] < rowGroups[i]

C8_SkipStep ==
    \A p \in Procs :
        (procState[p] /= "Skipped" /\ procState'[p] = "Skipped") =>
            /\ p = procIdx
            /\ procIdx' = p + 1
            /\ pc' = "procs"
            /\ err' = "none"
            /\ rowGroups' = rowGroups
            /\ sink' = sink
            /\ \A q \in Procs : q /= p => procState'[q] = procState[q]

C8_RowStep ==
    Len(rows') = Len(rows) + 1 =>
        /\ rowGroups' /= <<>>
        /\ Last(rowGroups') = procIdx
        /\ procState[procIdx] = "LayerResolved"

C8_FaultIsolation == [][C8_SkipStep /\ C8_RowStep]_vars /\ []C8_Groups

\* C8's case: the first process was skipped and the stream ended normally
\* with rows of the second only
C8_Witness ==
    /\ pc = "done"
    /\ procState[1] = "Skipped"
    /\ procState[NumProcs] = "Closed"
    /\ rowGroups = <<NumProcs>>
    /\ Len(rows) >= 1

\* C9: region-read failure handling.  Dumping, a row has the error status
\* exactly when its read raised, and then nothing was written for it; else
\* its status is the sink's name and its bytes were appended.  The file holds
\* exactly the bytes of the reads that succeeded, and every run handed to the
\* emission loop gets its row, failed reads before it or not.
C9_ReadFailureHandled ==
    config.dump =>
        /\ Len(ioLog) = Len(rows)
        /\ \A k \in 1..Len(rows) :
            /\ ioLog[k].read \in {"ok", "raised"}
            /\ (rows[k].file_output = ErrorOutput) = (ioLog[k].read = "raised")
            /\ ioLog[k].read = "raised" => ioLog[k].data = <<>>
            /\ ioLog[k].read = "ok" =>
                /\ rows[k].file_output = SinkName(rowGroups[Len(rowGroups)])
                /\ Len(ioLog[k].data) > 0
                /\ ioLog[k].at + Len(ioLog[k].data) <= Len(fileData)
                /\ SubSeq(fileData, ioLog[k].at + 1,
                          ioLog[k].at + Len(ioLog[k].data)) = ioLog[k].data
        /\ fileData = LoggedData(ioLog)
        /\ pc /= "raised" =>
            Len(rows) = Len(output) - (IF pc = "body" THEN 1 ELSE 0)

\* C9's case: the first run's read raised, the second run's did not, and the
\* process's runs were all emitted
C9_Witness ==
    /\ config.dump
    /\ pc = "done"
    /\ Len(rows) = 2
    /\ rows[1].file_output = ErrorOutput
    /\ rows[2].file_output = SinkName(NumProcs)
    /\ fileData = ioLog[2].data

\* C10: dump-disabled conservation.  With dump off no sink is ever opened,
\* nothing is read or written, and every row has the status "Disabled".
C10_DumpDisabled ==
    ~config.dump =>
        /\ \A p \in Procs : sink[p] = "none"
        /\ fileData = <<>>
        /\ \A k \in 1..Len(rows) : rows[k].file_output = Disabled
        /\ \A k \in 1..Len(ioLog) : ioLog[k].read = "none"

\* C10's case: dump off, every process resolved and rows were emitted
C10_Witness ==
    /\ ~config.dump
    /\ pc = "done"
    /\ \A p \in Procs : procState[p] = "Closed"
    /\ Len(rowGroups) = NumProcs
    /\ Len(rows) = MaxRegions

\* the process that the per-process variables (rows, input, output, the
\* file) belong to: the one resolved last
Owner == CHOOSE p \in Procs : Resolved(p) /\ \A q \in Procs : Resolved(q) => q <= p

\* C11: pass-through.  With coalesce off the runs handed to the emission loop
\* are the descriptors of mapping(), one to one and in order, and (unless an
\* error escaped) each descriptor has its row, with the descriptor's offsets
\* and mapped size.
C11_PassThrough ==
    ~config.coalesce =>
        /\ output = input
        /\ pc /= "raised" =>
            Len(rows) = Len(input) - (IF pc = "body" THEN 1 ELSE 0)
        /\ \A k \in 1..Len(rows) :
            /\ rows[k].offset = input[k].offset
            /\ rows[k].mapped_offset = input[k].mapped_offset
            /\ rows[k].mapped_size = input[k].mapped_size

\* C11's case: coalesce off, two descriptors that coalesce would merge came
\* out as two rows
C11_Witness ==
    /\ ~config.coalesce
    /\ pc = "done"
    /\ Len(input) = 2
    /\ VirtuallyContiguous(input[1], input[2])
    /\ BackingContiguous(input[1], input[2])
    /\ SameLayer(input[1], input[2])
    /\ Len(rows) = 2

\* C12: strict process sequencing.  At most one sink is open.  Every process
\* before the current one is finished (skipped, or closed with its sink
\* released) and every process after it is untouched: no row, no sink.  A row
\* is yielded, and a sink opened, only for the current process.
C12_OneAtATime ==
    /\ Cardinality({p \in Procs : sink[p] = "open"}) <= 1
    /\ \A p \in Procs :
        /\ p < procIdx =>
            /\ procState[p] \in {"Skipped", "Closed"}
            /\ sink[p] /= "open"
        /\ p > procIdx =>
            /\ procState[p] = "Init"
            /\ sink[p] = "none"
            /\ \A i \in 1..Len(rowGroups) : rowGroups[i] /= p

C12_Step ==
    /\ \A p \in Procs :
        (sink[p] /= "open" /\ sink'[p] = "open") =>
            /\ p = procIdx
            /\ \A q \in Procs : sink[q] /= "open"
            /\ \A q \in 1..(p - 1) : procState[q] \in {"Skipped", "Closed"}
    /\ rowGroups' /= rowGroups =>
        /\ rowGroups' = Append(rowGroups, procIdx)
        /\ \A i \in 1..Len(rowGroups) : rowGroups[i] < procIdx
        /\ \A q \in 1..(procIdx - 1) : sink[q] /= "open"

C12_Sequencing == [][C12_Step]_vars /\ []C12_OneAtATime

\* C12's case: dumping, the first process is closed with rows and its sink
\* released, the second has its sink open and a row yielded
C12_Witness ==
    /\ config.dump
    /\ pc = "yield"
    /\ procIdx = 2
    /\ procState[1] = "Closed"
    /\ sink[1] = "released"
    /\ sink[2] = "open"
    /\ rowGroups = <<1, 2>>

\* C13: the pass always completes.  When the consumer pulls to the end and
\* nothing fails but layer resolutions and reads, the generator eventually
\* returns with every process closed or skipped, and no exception ever
\* leaves it.
C13_AllFinished ==
    /\ pc = "done"
    /\ \A p \in Procs : procState[p] \in {"Closed", "Skipped"}

C13_PassCompletes ==
    /\ <>C13_AllFinished
    /\ [](err = "none" /\ pc /= "raised")

\* C13's case: the pass completed with a process skipped and, in the other,
\* a read that raised
C13_Witness ==
    /\ C13_AllFinished
    /\ config.dump
    /\ procState[1] = "Skipped"
    /\ procState[2] = "Closed"
    /\ \E k \in 1..Len(rows) : rows[k].file_output = ErrorOutput

\* C14: row order and content.  For each process the rows are the runs of the
\* run stream, one row per run and in the stream's order (a run not yet
\* emitted is the one in the loop's body), and each row's first three fields
\* are the run's offset, mapped_offset and mapped_size as the coalescer (or
\* the identity) gave them.
C14_RowPerRun ==
    /\ Len(rows) <= Len(output)
    /\ Len(output) - Len(rows) <= 1
    /\ pc /= "raised" =>
        Len(rows) = Len(output) - (IF pc = "body" THEN 1 ELSE 0)
    /\ \A k \in 1..Len(rows) :
        /\ rows[k].offset = output[k].offset
        /\ rows[k].mapped_offset = output[k].mapped_offset
        /\ rows[k].mapped_size = output[k].mapped_size

\* C14's case: the coalescer gave two different runs, of which the first is
\* wider than its backing, and both were emitted
C14_Witness ==
    /\ config.coalesce
    /\ pc = "done"
    /\ Len(output) = 2
    /\ Len(rows) = 2
    /\ output[1].size /= output[1].mapped_size
    /\ rows[1].offset < rows[2].offset

\* C15, as claimed: sink-creation failure.  Dumping, a failure to open a
\* process's sink is fatal for that process's dump only: it is propagated, no
\* row and no byte comes from that process, it is neither a skip nor a row
\* status, and the pass is not ended while processes remain.
C15_FatalForProcessOnly ==
    \A p \in Procs :
        procState[p] = "Failed" =>
            /\ err = "OSError"
            /\ sink[p] = "none"
            /\ \A k \in 1..Len(rowGroups) : rowGroups[k] /= p
            /\ p < NumProcs => pc /= "raised"

\* C15, amended: the failure leaves the generator unmasked and ends the whole
\* row stream.  The failing step comes from Init, writes nothing and yields
\* nothing, and no step follows it; the process has no sink and no row, and
\* no later process is looked at.
C15_FailStep ==
    /\ pc /= "raised"
    /\ \A p \in Procs :
        (procState[p] /= "Failed" /\ procState'[p] = "Failed") =>
            /\ config.dump
            /\ p = procIdx
            /\ procState[p] = "Init"
            /\ pc' = "raised"
            /\ err' = "OSError"
            /\ UNCHANGED <<rows, rowGroups, fileData, ioLog, sink>>

C15_Failed ==
    \A p \in Procs :
        procState[p] = "Failed" =>
            /\ pc = "raised"
            /\ err = "OSError"
            /\ p = procIdx
            /\ sink[p] = "none"
            /\ \A k \in 1..Len(rowGroups) : rowGroups[k] < p
            /\ \A q \in Procs :
                q > p => procState[q] = "Init" /\ sink[q] = "none"

C15_SinkFailureEndsStream == [][C15_FailStep]_vars /\ []C15_Failed

\* C15's case: the first process was dumped and closed, the second one's sink
\* did not open
C15_Witness ==
    /\ config.dump
    /\ procState[1] = "Closed"
    /\ sink[1] = "released"
    /\ procState[2] = "Failed"
    /\ rowGroups = <<1>>

\* C16: a skipped process never opens a sink.  A process becomes Skipped
\* straight from Init, in a step that opens no sink, starts no enumeration
\* and reads nothing; afterwards it stays Skipped, with no sink and no row.
C16_SkipStep ==
    \A p \in Procs :
        /\ (procState[p] /= "Skipped" /\ procState'[p] = "Skipped") =>
            /\ p = procIdx
            /\ procState[p] = "Init"
            /\ sink[p] = "none"
            /\ UNCHANGED <<sink, fileData, input, mapDone, output, ioLog,
                           rows, rowGroups>>
        /\ procState[p] = "Skipped" =>
            /\ procState'[p] = "Skipped"
            /\ sink'[p] = "none"

C16_NoSink ==
    \A p \in Procs :
        procState[p] = "Skipped" =>
            /\ sink[p] = "none"
            /\ \A k \in 1..Len(rowGroups) : rowGroups[k] /= p

C16_SkippedNeverOpens == [][C16_SkipStep]_vars /\ []C16_NoSink

\* C16's case: dumping, the first process was skipped and the second was
\* dumped to the end
C16_Witness ==
    /\ config.dump
    /\ pc = "done"
    /\ procState[1] = "Skipped"
    /\ sink[1] = "none"
    /\ procState[2] = "Closed"
    /\ sink[2] = "released"
    /\ rowGroups = <<2>>

\* C17: per-process confinement of state.  Each process starts with
\* file_offset 0 and no pending run; with coalescing, every run is made of
\* descriptors of the process's own enumeration only (the first run starts at
\* the process's first descriptor, whatever the previous process ended with),
\* and when the process's with block is left normally every run, the last
\* pending one included, has been emitted as a row of that process.
C17_StartStep ==
    \A p \in Procs :
        (procState[p] = "Init" /\ procState'[p] = "LayerResolved") =>
            /\ file_offset' = 0
            /\ stash'.offset = None
            /\ input' = <<>>
            /\ output' = <<>>
            /\ rows' = <<>>

C17_EndStep ==
    \A p \in Procs :
        (procState[p] = "LayerResolved" /\ procState'[p] = "Closed") =>
            /\ Len(rows) = Len(output)
            /\ SumSize(output) = SumSize(input)
            /\ SumMappedSize(output) = SumMappedSize(input)
            /\ input /= <<>> => rowGroups /= <<>> /\ Last(rowGroups) = p

C17_OwnRuns ==
    LET runs == Runs
        mem == RunMembers
    IN  /\ rows /= <<>> => rows[1].file_offset = 0
        /\ (pc = "mapping" /\ input = <<>>) =>
            file_offset = 0 /\ runs = <<>>
        /\ Len(mem) = Len(runs)
        /\ \A k \in 1..Len(runs) :
            /\ mem[k][1] \in 1..Len(input)
            /\ mem[k][2] \in mem[k][1]..Len(input)
            /\ runs[k].offset = input[mem[k][1]].offset
            /\ runs[k].mapped_offset = input[mem[k][1]].mapped_offset
            /\ runs[k].size = SumSize(SubSeq(input, mem[k][1], mem[k][2]))
            /\ runs[k].mapped_size
                 = SumMappedSize(SubSeq(input, mem[k][1], mem[k][2]))
        /\ input /= <<>> =>
            /\ runs /= <<>>
            /\ mem[1][1] = 1
            /\ runs[1].offset = input[1].offset

C17_Confined ==
    [][C17_StartStep /\ C17_EndStep]_vars /\ []C17_OwnRuns

\* C17's case: coalescing, the first descriptor of process 2 is contiguous in
\* virtual offset, backing offset and layer with the last one of process 1;
\* process 1 has its row and process 2's first row starts at that descriptor,
\* at file_offset 0
C17_Witness ==
    /\ config.coalesce
    /\ crossing.contiguous
    /\ pc = "done"
    /\ procState = [p \in Procs |-> "Closed"]
    /\ rowGroups = <<1, 2>>
    /\ rows[1].file_offset = 0
    /\ rows[1].offset = input[1].offset

\* C18: stashed_map_layer is never read before it is assigned.  For every
\* stream, the empty one and those of one descriptor included, coalesce
\* raises no UnboundLocalError: whenever a run is pending, stashed_map_layer
\* holds the layer of the run's descriptors, so the comparison of line 46
\* reads an assigned value, every run yielded carries a layer, and the first
\* comparison already separates descriptors of different layers.
C18_ReadStep ==
    ( /\ config.coalesce
      /\ Len(input') = Len(input) + 1
      /\ ReadsLayer(stash, Last(input')) )
    => /\ stash.map_layer /= Unbound
       /\ stash.map_layer = Last(input).map_layer
       /\ pc' /= "raised"

C18_Assigned ==
    config.coalesce =>
        /\ err /= "UnboundLocalError"
        /\ pc /= "raised"
        /\ stash.mapped_layer = "None"
        /\ (stash.offset = None) <=> (input = <<>>)
        /\ stash.offset /= None => stash.map_layer = Last(input).map_layer
        /\ \A k \in 1..Len(output) : output[k].map_layer /= Unbound
        /\ pc = "coalesced" =>
            Len(output) >= (IF input = <<>> THEN 0 ELSE 1)
        /\ (Len(input) >= 2 /\ ~SameLayer(input[1], input[2])) =>
            /\ Len(RunMembers) >= 2
            /\ RunMembers[1] = <<1, 1>>

C18_LayerNeverUnbound == [][C18_ReadStep]_vars /\ []C18_Assigned

\* C18's case: the first comparison reached the layers, found them equal and
\* the two descriptors came out as one run of that layer
C18_Witness ==
    /\ config.coalesce
    /\ pc = "coalesced"
    /\ Len(input) = 2
    /\ ReadsLayer(input[1], input[2])
    /\ SameLayer(input[1], input[2])
    /\ Len(output) = 1
    /\ output[1].map_layer = input[1].map_layer

\* C19, as claimed: dumping, with no read failing, after each row of a process
\* the running file_offset is the number of bytes appended to the process's
\* sink so far, coalescing or not.
C19_CounterIsFileLength ==
    ( /\ config.dump
      /\ pc = "mapping"
      /\ \A k \in 1..Len(ioLog) : ioLog[k].read = "ok" )
    => file_offset = Len(fileData)

\* lines 87 and 106 with coalesce = lambda x: x: the file_offset that the
\* i-th descriptor of inp receives (i = Len(inp) + 1: the final counter)
RECURSIVE PassThroughOffset(_, _)
PassThroughOffset(inp, i) ==
    IF i <= 1 THEN 0
    ELSE AdvanceFileOffset(PassThroughOffset(inp, i - 1), inp[i - 1])

\* C20: coalescing does not change file positions.  Without coalescing the
\* k-th row has the file_offset of the k-th descriptor; with coalescing each
\* row has the file_offset that the first member of its run has without; and
\* when the process's runs are exhausted the counter is the same in both
\* modes.
C20_RowOffsets ==
    /\ Len(members) >= Len(rows)
    /\ \A k \in 1..Len(rows) :
        /\ ~config.coalesce => members[k][1] = k
        /\ rows[k].file_offset = PassThroughOffset(input, members[k][1])

C20_EndStep ==
    \A p \in Procs :
        (procState[p] = "LayerResolved" /\ procState'[p] = "Closed") =>
            file_offset = PassThroughOffset(input, Len(input) + 1)

C20_SamePositions == [][C20_EndStep]_vars /\ []C20_RowOffsets

\* C20's case: coalescing, two descriptors were merged into one row and the
\* counter ended where it ends for the two rows without coalescing
C20_Witness ==
    /\ config.coalesce
    /\ pc = "done"
    /\ Len(input) = 2
    /\ Len(rows) = 1
    /\ members = << <<1, 2>> >>
    /\ file_offset = input[1].mapped_size + input[2].mapped_size

====
